---- MODULE Spec2Model ----
(***************************************************************************)
(* Model of the DigitalTwinServer streaming core (src/main.py).            *)
(*                                                                         *)
(* The server is a single-threaded asyncio program: the code between two   *)
(* awaits of a handler runs atomically, so every action below is one such  *)
(* stretch of code.  The await points of websocket_endpoint are            *)
(* accept() (line 92), receive_json() (line 95) and send_json() (line 108).*)
(*                                                                         *)
(* JSON values are tagged pairs: <<"num", n>> is the number n,             *)
(* <<"str", 0>> stands for any non-numeric value (a string), and           *)
(* <<"absent", 0>> marks a key the message does not carry.  Numbers are    *)
(* integers (Python ints are unbounded); the quotient computed by the      *)
(* true division of line 103 is kept as the exact fraction num/den.        *)
(***************************************************************************)
EXTENDS Integers, Sequences, FiniteSets, TLC

VARIABLES
    engine_data,     \* main.py:29  the dict {"energy": .., "temp": ..}
    engine_history,  \* main.py:26  deque(maxlen=60) of {"energy","temp"} dicts
    pc,              \* per session: position of websocket_endpoint
    msg,             \* per session: local variable msg (line 95)
    resp,            \* per session: the argument of the send_json in flight
    sent,            \* per session: the last response written to the peer
    nRead,           \* per session: number of receive_json() that returned
    nSent,           \* per session: number of send_json() that completed
    fault,           \* per session: the exception printed at line 116
    http,            \* the response of the read endpoint served in the last step
    pushed,          \* history variable: every sample ever appended (line 100)
    peer,            \* per session: whether the client still holds the connection
    DATASET_CSV,     \* main.py:35  os.getenv("DATASET_CSV")
    dataset_summary, \* main.py:9-13  the imported function, or None
    disk,            \* what the file system holds at the path DATASET_CSV
    _dataset_info,   \* main.py:36-41
    imported         \* whether the module body (lines 1-41) has run

streamVars == <<engine_data, engine_history, pc, msg, resp, sent, nRead,
                nSent, fault, pushed, peer>>

sessionVars ==
    <<engine_data, engine_history, pc, msg, resp, sent, nRead, nSent, fault,
      pushed>>

batchVars == <<DATASET_CSV, dataset_summary, disk, _dataset_info, imported>>

vars == <<engine_data, engine_history, pc, msg, resp, sent, nRead, nSent,
          fault, http, pushed, peer, DATASET_CSV, dataset_summary, disk,
          _dataset_info, imported>>

-----------------------------------------------------------------------------
(* Bounds of the model *)

NumSessions == 2
MaxMsgs == 2
MaxStream == 62

Sessions == 1..NumSessions

(* Program constants *)

maxlen == 60
OverheatMargin == 50
AlertThreshold == 550
InitEnergy == 500
InitTemp == 300

-----------------------------------------------------------------------------
(* JSON values *)

Num(n) == <<"num", n>>
NonNumeric == <<"str", 0>>
Absent == <<"absent", 0>>

IsNum(v) == v[1] = "num"
IsAbsent(v) == v[1] = "absent"
NumOf(v) == v[2]

NoMsg == [energy |-> Absent, temp |-> Absent]
NoResp == [kind |-> "none"]
NoHttp == [endpoint |-> "none"]

(* A well-formed message carries a number under both keys.  The code      *)
(* reads the temperature under the key "temp" (line 97).                   *)
WellFormed(m) == IsNum(m.energy) /\ IsNum(m.temp)

-----------------------------------------------------------------------------
(* collections.deque(maxlen=60).append: the oldest element is dropped      *)
(* when the deque is full.                                                 *)

(* Faulty variant of DequeAppend: a plain list, nothing is ever dropped. *)
DequeAppendUnbounded(h, x) == Append(h, x)

DequeAppend(h, x) ==
    IF Len(h) >= maxlen THEN Append(Tail(h), x) ELSE Append(h, x)

RECURSIVE SumTemp(_)
SumTemp(h) == IF h = <<>> THEN 0 ELSE NumOf(h[1].temp) + SumTemp(Tail(h))

AllNumTemp(h) == \A i \in 1..Len(h) : IsNum(h[i].temp)
AllNumEnergy(h) == \A i \in 1..Len(h) : IsNum(h[i].energy)

(* Faulty variant of AvgTemp: the sum is divided by the capacity of the    *)
(* window, not by the number of samples it holds.                          *)
AvgTempOverCapacity(h) ==
    IF ~AllNumTemp(h) THEN [exc |-> "TypeError", num |-> 0, den |-> 1]
    ELSE [exc |-> "none", num |-> SumTemp(h), den |-> maxlen]

(* sum(d['temp'] for d in engine_history)/len(engine_history), line 103:   *)
(* the exception it raises, or the quotient as a fraction.                 *)
AvgTemp(h) ==
    IF ~AllNumTemp(h) THEN [exc |-> "TypeError", num |-> 0, den |-> 1]
    ELSE IF Len(h) = 0 THEN [exc |-> "ZeroDivisionError", num |-> 0, den |-> 1]
    ELSE [exc |-> "none", num |-> SumTemp(h), den |-> Len(h)]

PredictedOverheat(t) == t + OverheatMargin

(* Faulty variant of Alert: the threshold itself raises the alert. *)
AlertInclusive(p) == p >= AlertThreshold

Alert(p) == p > AlertThreshold

-----------------------------------------------------------------------------
(* Faulty variant of ProcessMessage: the payload carries the temperature   *)
(* under the key "temperature".                                            *)
ProcessMessageLongKey(data, hist, m) ==
    IF IsAbsent(m.energy)
    THEN [data |-> data, hist |-> hist, appended |-> <<>>,
          exc |-> "KeyError", out |-> NoResp]
    ELSE
    LET d1 == [data EXCEPT !.energy = m.energy] IN
    IF IsAbsent(m.temp)
    THEN [data |-> d1, hist |-> hist, appended |-> <<>>,
          exc |-> "KeyError", out |-> NoResp]
    ELSE
    LET d2 == [d1 EXCEPT !.temp = m.temp]
        x == [energy |-> d2.energy, temp |-> d2.temp]
        h2 == DequeAppend(hist, x)
        avg == AvgTemp(h2)
    IN
    IF avg.exc # "none"
    THEN [data |-> d2, hist |-> h2, appended |-> <<x>>,
          exc |-> avg.exc, out |-> NoResp]
    ELSE IF ~IsNum(d2.temp)
    THEN [data |-> d2, hist |-> h2, appended |-> <<x>>,
          exc |-> "TypeError", out |-> NoResp]
    ELSE
    LET predicted_overheat == PredictedOverheat(NumOf(d2.temp)) IN
    [data |-> d2, hist |-> h2, appended |-> <<x>>, exc |-> "none",
     out |-> [kind |-> "json",
              energy |-> d2.energy,
              temperature |-> d2.temp,
              avg_temp |-> [num |-> avg.num, den |-> avg.den],
              predicted_overheat |-> predicted_overheat,
              alert |-> Alert(predicted_overheat)]]

-----------------------------------------------------------------------------
(* Lines 96-105 of websocket_endpoint, run on a received message m with    *)
(* the shared state (data, hist): the state they leave behind, the samples *)
(* appended, the exception raised ("none" if none) and the payload built   *)
(* for send_json.  An exception keeps the assignments made before it.      *)

ProcessMessage(data, hist, m) ==
    IF IsAbsent(m.energy)
    THEN [data |-> data, hist |-> hist, appended |-> <<>>,
          exc |-> "KeyError", out |-> NoResp]
    ELSE
    LET d1 == [data EXCEPT !.energy = m.energy] IN
    IF IsAbsent(m.temp)
    THEN [data |-> d1, hist |-> hist, appended |-> <<>>,
          exc |-> "KeyError", out |-> NoResp]
    ELSE
    LET d2 == [d1 EXCEPT !.temp = m.temp]
        x == [energy |-> d2.energy, temp |-> d2.temp]
        h2 == DequeAppend(hist, x)
        avg == AvgTemp(h2)
    IN
    IF avg.exc # "none"
    THEN [data |-> d2, hist |-> h2, appended |-> <<x>>,
          exc |-> avg.exc, out |-> NoResp]
    ELSE IF ~IsNum(d2.temp)
    THEN [data |-> d2, hist |-> h2, appended |-> <<x>>,
          exc |-> "TypeError", out |-> NoResp]
    ELSE
    LET predicted_overheat == PredictedOverheat(NumOf(d2.temp)) IN
    [data |-> d2, hist |-> h2, appended |-> <<x>>, exc |-> "none",
     out |-> [kind |-> "json",
              energy |-> d2.energy,
              temp |-> d2.temp,
              avg_temp |-> [num |-> avg.num, den |-> avg.den],
              predicted_overheat |-> predicted_overheat,
              alert |-> Alert(predicted_overheat)]]

-----------------------------------------------------------------------------
(* dashboard, lines 63-73: the analytics of the page.                      *)

RECURSIVE MaxNum(_)
MaxNum(h) ==
    IF Len(h) = 1 THEN NumOf(h[1].energy)
    ELSE LET r == MaxNum(Tail(h)) IN
         IF NumOf(h[1].energy) > r THEN NumOf(h[1].energy) ELSE r

(* max(energies): numbers compare, strings compare, a mix raises. *)
MaxEnergy(h) ==
    IF AllNumEnergy(h) THEN [exc |-> "none", val |-> Num(MaxNum(h))]
    ELSE IF \A i \in 1..Len(h) : ~IsNum(h[i].energy)
    THEN [exc |-> "none", val |-> NonNumeric]
    ELSE [exc |-> "TypeError", val |-> NonNumeric]

(* Faulty variant of DashboardAnalytics: the test of line 63 for an empty  *)
(* history is missing.                                                     *)
DashboardAnalyticsUnguarded(h) ==
    LET avg == AvgTemp(h) IN
    IF avg.exc # "none"
    THEN [exc |-> avg.exc, avg_temp |-> [num |-> 0, den |-> 1],
          max_energy |-> Num(0), alert |-> FALSE]
    ELSE [exc |-> "none",
          avg_temp |-> [num |-> avg.num, den |-> avg.den],
          max_energy |-> Num(0),
          alert |-> Alert(PredictedOverheat(NumOf(h[Len(h)].temp)))]

DashboardAnalytics(h) ==
    IF Len(h) > 0
    THEN LET avg == AvgTemp(h)
             mx == MaxEnergy(h)
         IN
         IF avg.exc # "none"
         THEN [exc |-> avg.exc, avg_temp |-> [num |-> 0, den |-> 1],
               max_energy |-> Num(0), alert |-> FALSE]
         ELSE IF mx.exc # "none"
         THEN [exc |-> mx.exc, avg_temp |-> [num |-> avg.num, den |-> avg.den],
               max_energy |-> Num(0), alert |-> FALSE]
         ELSE [exc |-> "none",
               avg_temp |-> [num |-> avg.num, den |-> avg.den],
               max_energy |-> mx.val,
               alert |-> Alert(PredictedOverheat(NumOf(h[Len(h)].temp)))]
    ELSE [exc |-> "none", avg_temp |-> [num |-> 0, den |-> 1],
          max_energy |-> Num(0), alert |-> FALSE]

(* dashboard, lines 75-88: the page is rendered with the format {:.1f},    *)
(* which raises ValueError on a value that is no number.                   *)
DashboardView(data, h) ==
    LET a == DashboardAnalytics(h)
        rendered == /\ a.exc = "none"
                    /\ IsNum(data.temp)
                    /\ IsNum(data.energy)
                    /\ IsNum(a.max_energy)
    IN [endpoint |-> "dashboard",
        status |-> IF rendered THEN 200 ELSE 500,
        exc |-> IF a.exc # "none" THEN a.exc
                ELSE IF rendered THEN "none" ELSE "ValueError",
        energy |-> data.energy,
        temp |-> data.temp,
        seconds |-> Len(h),
        avg_temp |-> a.avg_temp,
        max_energy |-> a.max_energy,
        alert |-> a.alert]

(* get_engine_data, lines 43-45 *)
EngineView(data) ==
    [endpoint |-> "engine", status |-> 200,
     energy |-> data.energy, temp |-> data.temp]

-----------------------------------------------------------------------------
(* os.getenv("DATASET_CSV"): the variable is not set, set to the empty     *)
(* string, or set to a path.                                               *)
Unset == "<None>"
EmptyString == ""
DataPath == "PM_train.txt"

(* The path names no file. *)
NoFile == [exists |-> FALSE, parses |-> FALSE, df |-> <<>>]

None == [kind |-> "None"]

(* State after the module is imported (lines 26-41) with DATASET_CSV not   *)
(* set, with every session slot still to connect.                          *)

Init ==
    /\ engine_data = [energy |-> Num(InitEnergy), temp |-> Num(InitTemp)]
    /\ engine_history = <<>>
    /\ pc = [s \in Sessions |-> "connecting"]
    /\ msg = [s \in Sessions |-> NoMsg]
    /\ resp = [s \in Sessions |-> NoResp]
    /\ sent = [s \in Sessions |-> NoResp]
    /\ nRead = [s \in Sessions |-> 0]
    /\ nSent = [s \in Sessions |-> 0]
    /\ fault = [s \in Sessions |-> "none"]
    /\ http = NoHttp
    /\ pushed = <<>>
    /\ peer = [s \in Sessions |-> "connected"]
    /\ DATASET_CSV = Unset
    /\ dataset_summary = "function"
    /\ disk = NoFile
    /\ _dataset_info = None
    /\ imported = TRUE

RECURSIVE SumUpTo(_, _)
SumUpTo(f, n) == IF n = 0 THEN 0 ELSE f[n] + SumUpTo(f, n - 1)

TotalRead == SumUpTo(nRead, NumSessions)

(* Faulty variant of Accept: a closed session is accepted again. *)
AcceptAgain(s) ==
    /\ pc[s] \in {"connecting", "closed"}
    /\ pc' = [pc EXCEPT ![s] = "receiving"]
    /\ http' = NoHttp
    /\ UNCHANGED <<engine_data, engine_history, msg, resp, sent, nRead,
                   nSent, fault, pushed>>
    /\ UNCHANGED <<peer, batchVars>>

(* line 92: await websocket.accept() *)
Accept(s) ==
    /\ pc[s] = "connecting"
    /\ pc' = [pc EXCEPT ![s] = "receiving"]
    /\ http' = NoHttp
    /\ UNCHANGED <<engine_data, engine_history, msg, resp, sent, nRead,
                   nSent, fault, pushed>>
    /\ UNCHANGED <<peer, batchVars>>

(* Faulty variant of AwaitingInput: the next input is read while the       *)
(* response to the last one is still being sent.                           *)
AwaitingInputOrSending(s) == pc[s] \in {"receiving", "responding"}

(* The session is suspended in receive_json() (line 95). *)
AwaitingInput(s) == pc[s] = "receiving"

(* lines 95-108: receive_json() returns m; the update and the analytics    *)
(* run without suspension up to the await of send_json, or up to the       *)
(* exception that ends the loop (lines 115-117).                           *)
Receive(s, m) ==
    /\ AwaitingInput(s)
    /\ LET r == ProcessMessage(engine_data, engine_history, m) IN
       /\ engine_data' = r.data
       /\ engine_history' = r.hist
       /\ pushed' = pushed \o r.appended
       /\ msg' = [msg EXCEPT ![s] = m]
       /\ nRead' = [nRead EXCEPT ![s] = @ + 1]
       /\ IF r.exc = "none"
          THEN /\ pc' = [pc EXCEPT ![s] = "responding"]
               /\ resp' = [resp EXCEPT ![s] = r.out]
               /\ fault' = fault
          ELSE /\ pc' = [pc EXCEPT ![s] = "closed"]
               /\ resp' = resp
               /\ fault' = [fault EXCEPT ![s] = r.exc]
    /\ http' = NoHttp
    /\ UNCHANGED <<sent, nSent>>
    /\ UNCHANGED <<peer, batchVars>>

(* Faulty variant of ReceiveFails: the handler notes the exception and     *)
(* goes on with the loop instead of leaving it.                            *)
ReceiveFailsRetry(s) ==
    /\ AwaitingInput(s)
    /\ pc' = pc
    /\ fault' = [fault EXCEPT ![s] = "WebSocketDisconnect"]
    /\ http' = NoHttp
    /\ UNCHANGED <<engine_data, engine_history, msg, resp, sent, nRead,
                   nSent, pushed>>
    /\ UNCHANGED <<peer, batchVars>>

(* line 95 raises: the peer disconnected, or the frame is no JSON object.  *)
ReceiveFails(s) ==
    /\ AwaitingInput(s)
    /\ pc' = [pc EXCEPT ![s] = "closed"]
    /\ fault' = [fault EXCEPT ![s] = "WebSocketDisconnect"]
    /\ http' = NoHttp
    /\ UNCHANGED <<engine_data, engine_history, msg, resp, sent, nRead,
                   nSent, pushed>>
    /\ UNCHANGED <<peer, batchVars>>

(* Faulty variant of SendDone: energy and temp of the payload are read     *)
(* from engine_data when the send completes.                               *)
SendDoneLateRead(s) ==
    /\ pc[s] = "responding"
    /\ sent' = [sent EXCEPT ![s] = [resp[s] EXCEPT !.energy = engine_data.energy,
                                                   !.temp = engine_data.temp]]
    /\ resp' = [resp EXCEPT ![s] = NoResp]
    /\ nSent' = [nSent EXCEPT ![s] = @ + 1]
    /\ pc' = [pc EXCEPT ![s] = "receiving"]
    /\ http' = NoHttp
    /\ UNCHANGED <<engine_data, engine_history, msg, nRead, fault, pushed>>
    /\ UNCHANGED <<peer, batchVars>>

(* line 108: send_json completes and the loop returns to line 95. *)
SendDone(s) ==
    /\ pc[s] = "responding"
    /\ sent' = [sent EXCEPT ![s] = resp[s]]
    /\ resp' = [resp EXCEPT ![s] = NoResp]
    /\ nSent' = [nSent EXCEPT ![s] = @ + 1]
    /\ pc' = [pc EXCEPT ![s] = "receiving"]
    /\ http' = NoHttp
    /\ UNCHANGED <<engine_data, engine_history, msg, nRead, fault, pushed>>
    /\ UNCHANGED <<peer, batchVars>>

(* line 108 raises: the write fails, lines 115-117 end the session. *)
SendFails(s) ==
    /\ pc[s] = "responding"
    /\ resp' = [resp EXCEPT ![s] = NoResp]
    /\ pc' = [pc EXCEPT ![s] = "closed"]
    /\ fault' = [fault EXCEPT ![s] = "SendError"]
    /\ http' = NoHttp
    /\ UNCHANGED <<engine_data, engine_history, msg, sent, nRead, nSent,
                   pushed>>
    /\ UNCHANGED <<peer, batchVars>>

(* GET /engine *)
GetEngine ==
    /\ http' = EngineView(engine_data)
    /\ UNCHANGED <<engine_data, engine_history, pc, msg, resp, sent, nRead,
                   nSent, fault, pushed>>
    /\ UNCHANGED <<peer, batchVars>>

(* Faulty variant of Dashboard: serving the page empties the history. *)
DashboardConsuming ==
    /\ http' = DashboardView(engine_data, engine_history)
    /\ engine_history' = <<>>
    /\ UNCHANGED <<engine_data, pc, msg, resp, sent, nRead,
                   nSent, fault, pushed>>
    /\ UNCHANGED <<peer, batchVars>>

(* GET /dashboard *)
Dashboard ==
    /\ http' = DashboardView(engine_data, engine_history)
    /\ UNCHANGED <<engine_data, engine_history, pc, msg, resp, sent, nRead,
                   nSent, fault, pushed>>
    /\ UNCHANGED <<peer, batchVars>>

-----------------------------------------------------------------------------
(* Spec: a few messages of every shape, over concurrent sessions.          *)

Energies == {400, 600}
Temps == {320, 500, 510}

Values(S) == {Num(n) : n \in S} \cup {NonNumeric, Absent}

Messages == [energy : Values(Energies), temp : Values(Temps)]

ReceiveAny(s) ==
    /\ TotalRead < MaxMsgs
    /\ \E m \in Messages : Receive(s, m)

Next ==
    \/ \E s \in Sessions : Accept(s)
    \/ \E s \in Sessions : ReceiveAny(s)
    \/ \E s \in Sessions : ReceiveFails(s)
    \/ \E s \in Sessions : SendDone(s)
    \/ \E s \in Sessions : SendFails(s)
    \/ GetEngine
    \/ Dashboard

Spec == Init /\ [][Next]_vars

-----------------------------------------------------------------------------
(* SpecStream: a long stream of well-formed samples, enough of them to     *)
(* fill the window and evict.  The n-th sample read has energy 400 + n,    *)
(* which identifies it, and a temperature cycling over 300, 310, 320.      *)

SteadySample(n) ==
    [energy |-> Num(400 + n), temp |-> Num(300 + 10 * ((n - 1) % 3))]

ReceiveSteady(s) ==
    /\ TotalRead < MaxStream
    /\ Receive(s, SteadySample(TotalRead + 1))

(* One engine streams at a time: a client connects once the connection    *)
(* before it has ended.                                                    *)
Reconnect(s) ==
    /\ \A t \in Sessions : t < s => pc[t] = "closed"
    /\ Accept(s)

StreamNext ==
    \/ \E s \in Sessions : Reconnect(s)
    \/ \E s \in Sessions : ReceiveSteady(s)
    \/ \E s \in Sessions : ReceiveFails(s)
    \/ \E s \in Sessions : SendDone(s)
    \/ \E s \in Sessions : SendFails(s)

SpecStream == Init /\ [][StreamNext]_vars

-----------------------------------------------------------------------------
(* The batch path, src/utils/dataset_loader.py.  A DataFrame is a sequence *)
(* of rows, a row a sequence of cells, a cell a number Num(n) or NaN (a    *)
(* missing value).  Columns are numbered from 1: column 1 is the unit id   *)
(* (unit_id_col = 0 in the code), column 2 the cycle (cycle_col = 1).      *)
(* Floats that are quotients are kept as exact fractions num/den.          *)

NaN == <<"nan", 0>>

unit_id_col == 1
cycle_col == 2

Frac(n, d) == [kind |-> "float", num |-> n, den |-> d]

Shape1(df) == Len(df[1])

(* load_aircraft_dataset, lines 28-40: the DataFrame, or the exception. *)
load_aircraft_dataset(d) ==
    IF ~d.exists THEN [exc |-> "FileNotFoundError", df |-> <<>>]
    ELSE IF ~d.parses THEN [exc |-> "ParserError", df |-> <<>>]
    ELSE [exc |-> "none", df |-> d.df]

(* df[unit_id_col].unique(), line 83: the unit ids in order of appearance. *)
RECURSIVE UniqueUnits(_)
UniqueUnits(df) ==
    IF df = <<>> THEN <<>>
    ELSE LET before == UniqueUnits(SubSeq(df, 1, Len(df) - 1))
             u == NumOf(df[Len(df)][unit_id_col])
         IN IF \E i \in 1..Len(before) : before[i] = u
            THEN before ELSE Append(before, u)

(* df[df[unit_id_col] == unit_id], line 84 *)
UnitData(df, u) == SelectSeq(df, LAMBDA row : NumOf(row[unit_id_col]) = u)

(* groupby(unit_id_col)[cycle_col].max(), line 72, for one unit *)
RECURSIVE MaxCycle(_)
MaxCycle(rows) ==
    IF Len(rows) = 1 THEN NumOf(rows[1][cycle_col])
    ELSE LET r == MaxCycle(Tail(rows))
             c == NumOf(rows[1][cycle_col])
         IN IF c > r THEN c ELSE r

(* Faulty variant of max_cycle_per_unit: the maximum is taken over the     *)
(* whole column, without the groupby.                                      *)
max_cycle_overall(df, u) == MaxCycle(df)

max_cycle_per_unit(df, u) == MaxCycle(UnitData(df, u))

(* compute_rul, lines 74-77 *)
compute_rul(df, row) ==
    max_cycle_per_unit(df, NumOf(row[unit_id_col])) - NumOf(row[cycle_col])

(* df_enrich['RUL'], line 79 *)
RulColumn(df) == [i \in 1..Len(df) |-> compute_rul(df, df[i])]

RECURSIVE SumSeq(_)
SumSeq(q) == IF q = <<>> THEN 0 ELSE q[1] + SumSeq(Tail(q))

RECURSIVE MaxSeq(_)
MaxSeq(q) ==
    IF Len(q) = 1 THEN q[1]
    ELSE LET r == MaxSeq(Tail(q)) IN IF q[1] > r THEN q[1] ELSE r

RECURSIVE MinSeq(_)
MinSeq(q) ==
    IF Len(q) = 1 THEN q[1]
    ELSE LET r == MinSeq(Tail(q)) IN IF q[1] < r THEN q[1] ELSE r

(* np.polyfit(X, y, 1)[0], line 93, on the points pts = <<x, y>>: the      *)
(* least-squares slope (n Sxy - Sx Sy) / (n Sxx - Sx Sx).  When all x are  *)
(* equal the fit is rank deficient and numpy returns the minimum-norm      *)
(* solution, whose slope is Sy / (2 n x).                                  *)
PolyfitSlope(pts) ==
    LET n == Len(pts)
        Sx == SumSeq([i \in 1..n |-> pts[i][1]])
        Sy == SumSeq([i \in 1..n |-> pts[i][2]])
        Sxy == SumSeq([i \in 1..n |-> pts[i][1] * pts[i][2]])
        Sxx == SumSeq([i \in 1..n |-> pts[i][1] * pts[i][1]])
        den == n * Sxx - Sx * Sx
    IN IF den # 0 THEN Frac(n * Sxy - Sx * Sy, den)
       ELSE Frac(Sy, 2 * n * pts[1][1])

(* Faulty variant of SlopesOfPair: a single valid point is fitted too. *)
SlopesOfPairOnePoint(unit_data, sensor_idx) ==
    LET valid == SelectSeq(unit_data, LAMBDA row : row[sensor_idx] # NaN)
        pts == [i \in 1..Len(valid) |->
                  <<NumOf(valid[i][cycle_col]), NumOf(valid[i][sensor_idx])>>]
    IN IF Len(unit_data) > 1 /\ Len(valid) > 0
       THEN <<PolyfitSlope(pts)>>
       ELSE <<>>

(* lines 87-94 for one unit and one sensor column: the slopes appended. *)
SlopesOfPair(unit_data, sensor_idx) ==
    LET valid == SelectSeq(unit_data, LAMBDA row : row[sensor_idx] # NaN)
        pts == [i \in 1..Len(valid) |->
                  <<NumOf(valid[i][cycle_col]), NumOf(valid[i][sensor_idx])>>]
    IN IF Len(unit_data) > 1 /\ Len(valid) > 0
       THEN IF Len(valid) > 1 THEN <<PolyfitSlope(pts)>> ELSE <<>>
       ELSE <<>>

(* the inner loop, lines 85-94, over sensor_cols[k..] *)
RECURSIVE SlopesOfUnit(_, _, _)
SlopesOfUnit(unit_data, sensor_cols, k) ==
    IF k > Len(sensor_cols) THEN <<>>
    ELSE SlopesOfPair(unit_data, sensor_cols[k])
            \o SlopesOfUnit(unit_data, sensor_cols, k + 1)

(* the outer loop, lines 82-94, over the units[k..] *)
RECURSIVE DegradationSlopes(_, _, _, _)
DegradationSlopes(df, units, sensor_cols, k) ==
    IF k > Len(units) THEN <<>>
    ELSE SlopesOfUnit(UnitData(df, units[k]), sensor_cols, 1)
            \o DegradationSlopes(df, units, sensor_cols, k + 1)

(* np.mean of a list of fractions *)
RECURSIVE SumFrac(_)
SumFrac(q) ==
    IF Len(q) = 1 THEN q[1]
    ELSE LET r == SumFrac(Tail(q)) IN
         Frac(q[1].num * r.den + r.num * q[1].den, q[1].den * r.den)

MeanFrac(q) == LET t == SumFrac(q) IN Frac(t.num, t.den * Len(q))

(* list(range(2, df.shape[1])), lines 65-66, as columns numbered from 1 *)
SensorCols(df) ==
    IF Shape1(df) > 2 THEN [i \in 1..(Shape1(df) - 2) |-> i + 2] ELSE <<>>

(* compute_engine_degradation, lines 65-107: the summary, or the exception *)
(* (a DataFrame with a single column has no cycle column: KeyError).       *)
compute_engine_degradation(df) ==
    IF Shape1(df) < 2 THEN [exc |-> "KeyError", summary |-> None]
    ELSE
    LET sensor_cols == SensorCols(df)
        rul == RulColumn(df)
        units == UniqueUnits(df)
        degradation_slopes == DegradationSlopes(df, units, sensor_cols, 1)
    IN [exc |-> "none",
        summary |->
          [kind |-> "summary",
           rows |-> Len(df),
           units |-> Len(units),
           mean_rul |-> Frac(SumSeq(rul), Len(rul)),
           max_rul |-> MaxSeq(rul),
           min_rul |-> MinSeq(rul),
           mean_sensor_degradation_slope |->
               IF Len(degradation_slopes) > 0
               THEN MeanFrac(degradation_slopes) ELSE None,
           num_sensors |-> Len(sensor_cols)]]

(* dataset_summary, lines 119-128, on what the path holds *)
DatasetSummary(d) ==
    LET loaded == load_aircraft_dataset(d) IN
    IF loaded.exc # "none"
    THEN [kind |-> "error", error |-> "Failed to load dataset"]
    ELSE LET r == compute_engine_degradation(loaded.df) IN
         IF r.exc # "none"
         THEN [kind |-> "error", error |-> "Failed to compute metrics"]
         ELSE r.summary

(* main.py, lines 35-41, the end of the module body: a string is truthy    *)
(* unless it is empty.                                                     *)
ImportModule ==
    /\ ~imported
    /\ imported' = TRUE
    /\ _dataset_info' =
          IF DATASET_CSV # Unset /\ DATASET_CSV # EmptyString
             /\ dataset_summary # "None"
          THEN DatasetSummary(disk)
          ELSE None
    /\ http' = NoHttp
    /\ UNCHANGED <<streamVars, DATASET_CSV, dataset_summary, disk>>

(* dataset_metrics, lines 49-59 *)
MetricsView ==
    IF DATASET_CSV = Unset
    THEN [endpoint |-> "dataset-metrics", status |-> 200, available |-> FALSE,
          reason |-> "DATASET_CSV not set", summary |-> None]
    ELSE IF dataset_summary = "None"
    THEN [endpoint |-> "dataset-metrics", status |-> 200, available |-> FALSE,
          reason |-> "dataset utilities not available", summary |-> None]
    ELSE [endpoint |-> "dataset-metrics", status |-> 200, available |-> TRUE,
          reason |-> "", summary |-> _dataset_info]

(* GET /dataset-metrics *)
DatasetMetrics ==
    /\ imported
    /\ http' = MetricsView
    /\ UNCHANGED <<streamVars, batchVars>>

-----------------------------------------------------------------------------
(* SpecData: the module is imported under every configuration and over     *)
(* every small dataset, then the summary endpoint is served.               *)

MaxRows == 2

Units == {1, 2}
Cycles == {1, 2, 3}
SensorValues == {Num(10), Num(14), NaN}

RowsOfWidth(w) ==
    IF w = 1 THEN {<<Num(u)>> : u \in Units}
    ELSE IF w = 2 THEN {<<Num(u), Num(c)>> : u \in Units, c \in Cycles}
    ELSE IF w = 3
    THEN {<<Num(u), Num(c), v>> : u \in Units, c \in Cycles, v \in SensorValues}
    ELSE {<<Num(u), Num(c), v, w2>> :
             u \in Units, c \in Cycles, v \in SensorValues, w2 \in SensorValues}

(* The dataset of the worked example: rows (unit, cycle, sensor). *)
ExampleRows ==
    << <<Num(1), Num(1), Num(10)>>, <<Num(1), Num(2), Num(12)>>,
       <<Num(1), Num(3), Num(14)>>, <<Num(2), Num(1), Num(5)>> >>

DataFrames ==
    {ExampleRows} \cup
    UNION {[1..n -> RowsOfWidth(w)] : n \in 1..MaxRows, w \in 1..4}

Disks ==
    {NoFile, [exists |-> TRUE, parses |-> FALSE, df |-> <<>>]}
        \cup {[exists |-> TRUE, parses |-> TRUE, df |-> df] : df \in DataFrames}

DataInit ==
    /\ engine_data = [energy |-> Num(InitEnergy), temp |-> Num(InitTemp)]
    /\ engine_history = <<>>
    /\ pc = [s \in Sessions |-> "connecting"]
    /\ msg = [s \in Sessions |-> NoMsg]
    /\ resp = [s \in Sessions |-> NoResp]
    /\ sent = [s \in Sessions |-> NoResp]
    /\ nRead = [s \in Sessions |-> 0]
    /\ nSent = [s \in Sessions |-> 0]
    /\ fault = [s \in Sessions |-> "none"]
    /\ http = NoHttp
    /\ pushed = <<>>
    /\ peer = [s \in Sessions |-> "connected"]
    /\ DATASET_CSV \in {Unset, EmptyString, DataPath}
    /\ dataset_summary \in {"function", "None"}
    /\ disk \in (IF DATASET_CSV = DataPath THEN Disks ELSE {NoFile})
    /\ _dataset_info = None
    /\ imported = FALSE

DataNext ==
    \/ ImportModule
    \/ DatasetMetrics

SpecData == DataInit /\ [][DataNext]_vars

-----------------------------------------------------------------------------
(* SpecEndpoints: the four endpoints together, over a few messages: two    *)
(* well-formed ones, one with a non-numeric temp, one with a non-numeric   *)
(* energy, and one shaped as {energy, temperature}, which has no key       *)
(* "temp".                                                                 *)

WireMessages ==
    { [energy |-> Num(600), temp |-> Num(320)],
      [energy |-> Num(400), temp |-> Num(510)],
      [energy |-> Num(600), temp |-> NonNumeric],
      [energy |-> NonNumeric, temp |-> Num(320)],
      [energy |-> Num(600), temp |-> Absent, temperature |-> Num(320)] }

ReceiveWire(s) ==
    /\ TotalRead < MaxMsgs
    /\ \E m \in WireMessages : Receive(s, m)

EndpointsNext ==
    \/ \E s \in Sessions : Accept(s)
    \/ \E s \in Sessions : ReceiveWire(s)
    \/ \E s \in Sessions : ReceiveFails(s)
    \/ \E s \in Sessions : SendDone(s)
    \/ \E s \in Sessions : SendFails(s)
    \/ GetEngine
    \/ Dashboard
    \/ DatasetMetrics

SpecEndpoints == Init /\ [][EndpointsNext]_vars

-----------------------------------------------------------------------------
(* SpecLive: the stream endpoint with its peers.  The peer of an open      *)
(* session may go away at any time; from then on no message arrives and    *)
(* the pending or next receive_json() raises WebSocketDisconnect           *)
(* (line 95).  A send_json() under way either completes or raises          *)
(* (line 108).  The event loop resumes a task whose await can complete:    *)
(* weak fairness on the end of a send and on the delivery of the           *)
(* disconnect.                                                             *)

PeerDisconnect(s) ==
    /\ pc[s] \in {"receiving", "responding"}
    /\ peer[s] = "connected"
    /\ peer' = [peer EXCEPT ![s] = "gone"]
    /\ UNCHANGED <<sessionVars, http, batchVars>>

(* A well-formed message, and one whose temp is no number: once it is in   *)
(* the window, line 103 raises on every later message.                     *)
LiveMessages ==
    { [energy |-> Num(600), temp |-> Num(320)],
      [energy |-> Num(600), temp |-> NonNumeric] }

ReceiveLive(s) ==
    /\ peer[s] = "connected"
    /\ TotalRead < MaxMsgs
    /\ \E m \in LiveMessages : Receive(s, m)

(* receive_json() raises on a frame that is no JSON object. *)
BadFrame(s) ==
    /\ peer[s] = "connected"
    /\ ReceiveFails(s)

DisconnectSeen(s) ==
    /\ peer[s] = "gone"
    /\ ReceiveFails(s)

SendEnds(s) == SendDone(s) \/ SendFails(s)

LiveNext ==
    \/ \E s \in Sessions : Accept(s)
    \/ \E s \in Sessions : ReceiveLive(s)
    \/ \E s \in Sessions : BadFrame(s)
    \/ \E s \in Sessions : PeerDisconnect(s)
    \/ \E s \in Sessions : DisconnectSeen(s)
    \/ \E s \in Sessions : SendEnds(s)

SpecLive ==
    /\ Init
    /\ [][LiveNext]_vars
    /\ \A s \in Sessions : WF_vars(SendEnds(s))
    /\ \A s \in Sessions : WF_vars(DisconnectSeen(s))

-----------------------------------------------------------------------------
(* Vocabulary of the properties *)

Sample(m) == [energy |-> m.energy, temp |-> m.temp]

(* Session s read a message in this step. *)
Reads(s) == nRead'[s] = nRead[s] + 1

(* The temperatures of pushed[from..to], added up. *)
RECURSIVE TempTotal(_, _)
TempTotal(from, to) ==
    IF from > to THEN 0 ELSE NumOf(pushed[to].temp) + TempTotal(from, to - 1)

-----------------------------------------------------------------------------
(* C1: after any sequence of messages, over one or several sessions,       *)
(* engine_history holds exactly the last min(n, 60) of the n samples       *)
(* pushed so far, in arrival order: its length is min(n, 60) and, once     *)
(* n > 60, its oldest element is the (n - 60 + 1)-th pushed sample.        *)
C1_WindowHoldsMostRecent ==
    LET n == Len(pushed)
        k == IF n < 60 THEN n ELSE 60
    IN /\ Len(engine_history) = k
       /\ \A j \in 1..k : engine_history[j] = pushed[n - k + j]
       /\ n > 60 => engine_history[1] = pushed[n - 60 + 1]

(* More than 60 samples were pushed, by two sessions in turn. *)
C1_Witness ==
    /\ Len(pushed) > 60
    /\ nRead[1] > 0
    /\ nRead[2] > 0

(* C2: a malformed message (energy or temperature absent or non-numeric)   *)
(* leaves engine_data and engine_history exactly as they were.             *)
C2_MalformedLeavesStateUnchanged ==
    [][\A s \in Sessions :
         (Reads(s) /\ ~WellFormed(msg'[s]))
            => (engine_data' = engine_data /\ engine_history' = engine_history)]_vars

(* C3: a malformed message terminates the session that received it, and    *)
(* no response is sent for it.                                             *)
C3_MalformedTerminatesSession ==
    [][\A s \in Sessions :
         (Reads(s) /\ ~WellFormed(msg'[s]))
            => (pc'[s] = "closed" /\ resp'[s] = NoResp)]_vars

(* C4: an error in one session ends only that session: a well-formed       *)
(* message read by any open session is still processed and answered, and   *)
(* does not close the session that read it.                                *)
C4_OtherSessionsStillAnswered ==
    [][\A s \in Sessions :
         (Reads(s) /\ WellFormed(msg'[s]))
            => (pc'[s] = "responding" /\ resp'[s].kind = "json")]_vars

(* C5: at every await of the event loop, once a sample has been accepted,  *)
(* the last element of engine_history has the energy and the temperature   *)
(* of engine_data.                                                         *)
C5_HistoryEndsWithCurrent ==
    Len(pushed) >= 1 =>
        /\ Len(engine_history) >= 1
        /\ engine_history[Len(engine_history)].energy = engine_data.energy
        /\ engine_history[Len(engine_history)].temp = engine_data.temp

(* C6: within a session the response to input N is sent before input N+1   *)
(* is read: the inputs read exceed the responses sent by at most one, and  *)
(* by none while the session waits for an input.                           *)
C6_HalfDuplexFifo ==
    \A s \in Sessions :
        /\ nSent[s] <= nRead[s]
        /\ nRead[s] - nSent[s] <= 1
        /\ pc[s] = "receiving" => nRead[s] = nSent[s]

(* A session read its second input after its first response was sent. *)
C6_Witness ==
    \E s \in Sessions : nRead[s] = 2 /\ nSent[s] = 1

(* C7: the response to a well-formed message has predicted_overheat equal  *)
(* to the message's temperature plus 50 and alert equal to                 *)
(* predicted_overheat > 550, strictly: 510 gives 560 and an alert, 320     *)
(* gives 370 and none, 500 gives 550 and none.                             *)
C7_AnswersMessage(r, m) ==
    LET t == NumOf(m.temp) IN
    /\ r.kind = "json"
    /\ r.predicted_overheat = t + 50
    /\ r.alert = (t + 50 > 550)
    /\ t = 510 => (r.predicted_overheat = 560 /\ r.alert = TRUE)
    /\ t = 320 => (r.predicted_overheat = 370 /\ r.alert = FALSE)
    /\ t = 500 => (r.predicted_overheat = 550 /\ r.alert = FALSE)

C7_OverheatAndAlert ==
    \A s \in Sessions :
        WellFormed(msg[s]) =>
            /\ pc[s] = "responding" => C7_AnswersMessage(resp[s], msg[s])
            /\ (nSent[s] > 0 /\ nSent[s] = nRead[s])
                  => C7_AnswersMessage(sent[s], msg[s])

(* A response to a message of temperature 500 was sent. *)
C7_Witness ==
    \E s \in Sessions :
        /\ nSent[s] > 0
        /\ nSent[s] = nRead[s]
        /\ msg[s].temp = Num(500)
        /\ WellFormed(msg[s])

(* C8: avg_temp of the response to a well-formed message is the mean of    *)
(* the temperatures of the window after the push: of the last min(n, 60)   *)
(* pushed samples, the message's own sample being the last of them;        *)
(* temperatures [300, 310, 320] give 310.                                  *)
C8_AvgOfWindow(r, m) ==
    LET n == Len(pushed)
        k == IF n < 60 THEN n ELSE 60
    IN /\ r.kind = "json"
       /\ n >= 1
       /\ pushed[n] = Sample(m)
       /\ r.avg_temp.den > 0
       /\ r.avg_temp.num * k = TempTotal(n - k + 1, n) * r.avg_temp.den
       /\ (n = 3 /\ pushed[1].temp = Num(300) /\ pushed[2].temp = Num(310)
                 /\ pushed[3].temp = Num(320))
            => r.avg_temp.num = 310 * r.avg_temp.den

C8_AvgTempIsWindowMean ==
    \A s \in Sessions :
        WellFormed(msg[s]) =>
            /\ pc[s] = "responding" => C8_AvgOfWindow(resp[s], msg[s])
            /\ (pc[s] = "receiving" /\ nSent[s] > 0)
                  => C8_AvgOfWindow(sent[s], msg[s])

(* A response computed over a full window that has evicted samples. *)
C8_Witness ==
    \E s \in Sessions :
        /\ pc[s] = "responding"
        /\ Len(pushed) > 60
        /\ Len(engine_history) = 60

(* C9: the analytics of an empty window are an average of 0, a maximum     *)
(* energy of 0 and no alert, and no average is ever computed by dividing   *)
(* by a window length of zero, neither by the dashboard nor by the stream  *)
(* path, which pushes before it averages.                                  *)
C9_NoDivisionByZero ==
    /\ \A s \in Sessions : fault[s] # "ZeroDivisionError"
    /\ \A s \in Sessions : pc[s] = "responding" => resp[s].avg_temp.den >= 1
    /\ http.endpoint = "dashboard" =>
          /\ http.exc # "ZeroDivisionError"
          /\ http.avg_temp.den >= 1
          /\ Len(engine_history) = 0 =>
                /\ http.avg_temp.num = 0
                /\ http.max_energy = Num(0)
                /\ http.alert = FALSE

(* The dashboard was served before any sample was pushed. *)
C9_Witness ==
    /\ http.endpoint = "dashboard"
    /\ Len(engine_history) = 0
    /\ Len(pushed) = 0

(* C10: GET /engine returns {energy: 500, temperature: 300} as long as no  *)
(* sample has arrived, then the energy and the temperature of the most     *)
(* recently accepted sample, and never an error.                           *)
C10_EngineReturnsLatestSample ==
    http.endpoint = "engine" =>
        /\ http.status = 200
        /\ IF Len(pushed) = 0
           THEN http.energy = Num(500) /\ http.temp = Num(300)
           ELSE /\ http.energy = pushed[Len(pushed)].energy
                /\ http.temp = pushed[Len(pushed)].temp

(* C13: the batch summary never fails its caller: dataset_summary gives a  *)
(* summary or an {error: ...} value for every input; the summary endpoint  *)
(* returns {available: true, summary: that value} when a dataset path is   *)
(* configured and the utilities are available, and {available: false,      *)
(* reason: ...} exactly when no path is configured or the utilities are    *)
(* missing.                                                                *)
C13_SummaryEndpointContract ==
    http.endpoint = "dataset-metrics" =>
        LET configured == DATASET_CSV # Unset /\ DATASET_CSV # EmptyString
            available == dataset_summary # "None"
        IN /\ http.status = 200
           /\ (configured /\ available) =>
                 /\ http.available = TRUE
                 /\ http.summary.kind \in {"summary", "error"}
                 /\ http.summary = _dataset_info
           /\ http.available = FALSE <=> (~configured \/ ~available)

(* The units of a DataFrame and the cycles of one of them, as sets. *)
UnitSet(df) == {NumOf(df[i][unit_id_col]) : i \in 1..Len(df)}

CyclesOf(df, u) ==
    {NumOf(df[i][cycle_col]) : i \in {j \in 1..Len(df) :
                                        NumOf(df[j][unit_id_col]) = u}}

Greatest(S) == CHOOSE x \in S : \A y \in S : y <= x

(* C14: for every non-empty rectangular dataset, the RUL of a row is the   *)
(* maximum cycle among the rows of its unit minus its own cycle; so every  *)
(* RUL is non-negative, the row with the unit's maximum cycle has RUL 0,   *)
(* min_rul is 0 and the unit count is the number of distinct unit ids.     *)
(* Rows [(1,1,10),(1,2,12),(1,3,14),(2,1,5)] give RUL [2,1,0,0] and 2      *)
(* units.                                                                  *)
C14_RulIsMaxCycleMinusCycle ==
    (imported /\ _dataset_info.kind = "summary") =>
        LET df == disk.df
            rul == RulColumn(df)
        IN /\ \A i \in 1..Len(df) :
                 LET top == Greatest(CyclesOf(df, NumOf(df[i][unit_id_col])))
                 IN /\ rul[i] = top - NumOf(df[i][cycle_col])
                    /\ rul[i] >= 0
                    /\ NumOf(df[i][cycle_col]) = top => rul[i] = 0
           /\ _dataset_info.min_rul = 0
           /\ _dataset_info.units = Cardinality(UnitSet(df))
           /\ df = ExampleRows =>
                 /\ rul = <<2, 1, 0, 0>>
                 /\ _dataset_info.units = 2

(* The summary of the worked example has been computed. *)
C14_Witness ==
    /\ imported
    /\ _dataset_info.kind = "summary"
    /\ disk.df = ExampleRows

(* The (unit, sensor column) pairs with at least 2 rows and at least 2     *)
(* non-missing sensor values.                                              *)
FittedPairs(df) ==
    {p \in UnitSet(df) \X {k \in 1..Shape1(df) : k > 2} :
        LET mine == {i \in 1..Len(df) : NumOf(df[i][unit_id_col]) = p[1]}
        IN /\ Cardinality(mine) >= 2
           /\ Cardinality({i \in mine : df[i][p[2]] # NaN}) >= 2}

(* C18: one slope is collected for each (unit, sensor) pair with at least  *)
(* 2 rows and at least 2 non-missing sensor values and none for any other  *)
(* pair, which is skipped without an error;                                *)
(* mean_sensor_degradation_slope is null exactly when no pair produced a   *)
(* slope, and the sensor count is the number of columns after the first    *)
(* two.                                                                    *)
C18_OneSlopePerFittedPair ==
    (imported /\ DATASET_CSV = DataPath /\ dataset_summary # "None"
        /\ disk.exists /\ disk.parses /\ Shape1(disk.df) >= 2) =>
        LET df == disk.df
            slopes == DegradationSlopes(df, UniqueUnits(df), SensorCols(df), 1)
        IN /\ _dataset_info.kind = "summary"
           /\ Len(slopes) = Cardinality(FittedPairs(df))
           /\ (_dataset_info.mean_sensor_degradation_slope = None)
                 <=> (FittedPairs(df) = {})
           /\ _dataset_info.num_sensors = Shape1(df) - 2

(* A summary over two sensor columns where one pair was fitted and         *)
(* another skipped.                                                        *)
C18_Witness ==
    /\ imported
    /\ _dataset_info.kind = "summary"
    /\ _dataset_info.num_sensors = 2
    /\ Cardinality(FittedPairs(disk.df)) = 1

(* The message carries a number under the key k. *)
HasNum(m, k) == k \in DOMAIN m /\ IsNum(m[k])

(* The keys of a payload. *)
Keys(r) == DOMAIN r \ {"kind"}

(* C11, as stated: a message with numeric fields named energy and          *)
(* temperature is accepted by the stream endpoint, and the response is a   *)
(* record whose fields are exactly energy, temperature, avg_temp,          *)
(* predicted_overheat and alert.                                           *)
C11_TemperatureFieldAccepted ==
    [][\A s \in Sessions :
         (Reads(s) /\ HasNum(msg'[s], "energy")
                   /\ HasNum(msg'[s], "temperature"))
            => /\ fault'[s] # "KeyError"
               /\ pc'[s] = "responding"
                     => Keys(resp'[s]) = {"energy", "temperature", "avg_temp",
                                          "predicted_overheat", "alert"}]_vars

(* C11, amended: a message with numeric fields named energy and temp is    *)
(* read without error (both values are stored in engine_data and the       *)
(* sample is appended to engine_history), and every response is a record   *)
(* whose fields are exactly energy, temp, avg_temp, predicted_overheat and *)
(* alert, energy and temp being those of the message.                      *)
C11_TempFieldAccepted ==
    [][\A s \in Sessions :
         /\ (Reads(s) /\ HasNum(msg'[s], "energy") /\ HasNum(msg'[s], "temp"))
               => /\ fault'[s] # "KeyError"
                  /\ engine_data' = Sample(msg'[s])
                  /\ Len(engine_history') >= 1
                  /\ engine_history'[Len(engine_history')] = Sample(msg'[s])
                  /\ pc'[s] = "responding"
                        => /\ Keys(resp'[s]) = {"energy", "temp", "avg_temp",
                                                "predicted_overheat", "alert"}
                           /\ resp'[s].energy = msg'[s].energy
                           /\ resp'[s].temp = msg'[s].temp
         /\ resp'[s] # NoResp
               => Keys(resp'[s]) = {"energy", "temp", "avg_temp",
                                    "predicted_overheat", "alert"}
         /\ sent'[s] # NoResp
               => Keys(sent'[s]) = {"energy", "temp", "avg_temp",
                                    "predicted_overheat", "alert"}]_vars

(* A response to a message {energy, temp} of numbers has been sent. *)
C11_Witness ==
    \E s \in Sessions :
        /\ nSent[s] = 1
        /\ nRead[s] = 1
        /\ HasNum(msg[s], "energy")
        /\ HasNum(msg[s], "temp")
        /\ sent[s] # NoResp

(* C16: the read paths (GET /engine, /dashboard, /dataset-metrics) leave   *)
(* engine_data and engine_history unchanged in every reachable state; only *)
(* the per-message update of the stream endpoint mutates them.             *)
C16_ReadsArePure ==
    [][/\ http'.endpoint \in {"engine", "dashboard", "dataset-metrics"}
          => (engine_data' = engine_data /\ engine_history' = engine_history)
       /\ (engine_data' # engine_data \/ engine_history' # engine_history)
          => \E s \in Sessions : Reads(s)]_vars

(* A read endpoint has been served while the history holds samples. *)
C16_Witness ==
    /\ http.endpoint = "dataset-metrics"
    /\ Len(engine_history) >= 1
    /\ engine_data # [energy |-> Num(InitEnergy), temp |-> Num(InitTemp)]

(* C12: a session leaves the Open state only on a peer disconnect, a       *)
(* malformed payload or a processing fault; Closed is terminal: a closed   *)
(* session never reads, sends or mutates engine_data or engine_history     *)
(* again; and a session that receives nothing stays Open: only an input    *)
(* or a disconnect of its own ends its wait.                               *)
C12_ClosedOnlyOnFaultAndTerminal ==
    [][\A s \in Sessions :
         /\ (pc[s] # "closed" /\ pc'[s] = "closed")
               => /\ pc[s] \in {"receiving", "responding"}
                  /\ fault[s] = "none"
                  /\ IF Reads(s) THEN fault'[s] \in {"KeyError", "TypeError"}
                     ELSE IF pc[s] = "receiving"
                     THEN fault'[s] = "WebSocketDisconnect"
                     ELSE fault'[s] = "SendError"
         /\ pc[s] = "closed"
               => /\ pc'[s] = "closed"
                  /\ nRead'[s] = nRead[s]
                  /\ nSent'[s] = nSent[s]
                  /\ sent'[s] = sent[s]
                  /\ resp'[s] = resp[s]
                  /\ fault'[s] = fault[s]
                  /\ (engine_data' # engine_data
                        \/ engine_history' # engine_history)
                       => \E t \in Sessions \ {s} : Reads(t) /\ pc[t] # "closed"
         /\ (pc[s] = "receiving" /\ pc'[s] # "receiving")
               => (Reads(s) \/ fault'[s] = "WebSocketDisconnect")]_vars

(* A session closed on a missing field while another one, still open, has  *)
(* been answered.                                                          *)
C12_Witness ==
    \E s, t \in Sessions :
        /\ pc[s] = "closed"
        /\ fault[s] = "KeyError"
        /\ pc[t] = "receiving"
        /\ nSent[t] >= 1

(* The payload r answers message m over the window h: it carries m's       *)
(* energy and temp, h ends with m's sample, avg_temp is the mean of h and  *)
(* alert is decided on m's temp.                                           *)
C15_AnswersOver(r, m, h) ==
    /\ r.kind = "json"
    /\ r.energy = m.energy
    /\ r.temp = m.temp
    /\ Len(h) >= 1
    /\ h[Len(h)] = Sample(m)
    /\ \A i \in 1..Len(h) : IsNum(h[i].temp)
    /\ r.avg_temp.den > 0
    /\ r.avg_temp.num * Len(h) = SumTemp(h) * r.avg_temp.den
    /\ r.predicted_overheat = NumOf(m.temp) + 50
    /\ r.alert = (NumOf(m.temp) + 50 > 550)

(* C15: under any interleaving of concurrent sessions, the response a      *)
(* session sends for a message carries the energy and temp of that         *)
(* message, and its avg_temp and alert are computed from the window whose  *)
(* last element is that message's sample; the steps of other sessions      *)
(* between the read and the send leave the response as it was built.       *)
C15_ResponseIsOfItsMessage ==
    [][\A s \in Sessions :
         /\ (Reads(s) /\ pc'[s] = "responding")
               => C15_AnswersOver(resp'[s], msg'[s], engine_history')
         /\ (pc[s] = "responding" /\ pc'[s] = "responding")
               => (resp'[s] = resp[s] /\ msg'[s] = msg[s])
         /\ nSent'[s] = nSent[s] + 1
               => /\ pc[s] = "responding"
                  /\ sent'[s] = resp[s]
                  /\ msg'[s] = msg[s]
                  /\ sent'[s].energy = msg[s].energy
                  /\ sent'[s].temp = msg[s].temp]_vars

(* A session has sent its response after another session's message became *)
(* the latest sample.                                                      *)
C15_Witness ==
    \E s, t \in Sessions :
        /\ s # t
        /\ nSent[s] = 1
        /\ nRead[s] = 1
        /\ nRead[t] = 1
        /\ pushed = <<Sample(msg[s]), Sample(msg[t])>>
        /\ Sample(msg[s]) # Sample(msg[t])
        /\ engine_data = Sample(msg[t])
        /\ sent[s] # NoResp
        /\ sent[s].energy = msg[s].energy
        /\ sent[s].temp = msg[s].temp

(* C17: every well-formed message read by an open session is eventually    *)
(* followed, on the same connection, by the sending of its response or by  *)
(* the session reaching Closed; and after a peer disconnect the session    *)
(* eventually reaches Closed.                                              *)
C17_AnsweredOrClosed ==
    \A s \in Sessions :
        /\ \A n \in 1..MaxMsgs :
              (nRead[s] = n /\ WellFormed(msg[s]))
                 ~> (pc[s] = "closed" \/ nSent[s] = n)
        /\ (pc[s] = "responding") ~> (pc[s] \in {"receiving", "closed"})
        /\ (peer[s] = "gone") ~> (pc[s] = "closed")

(* A session that answered a well-formed message was closed by the         *)
(* disconnect of its peer.                                                 *)
C17_Witness ==
    \E s \in Sessions :
        /\ pc[s] = "closed"
        /\ peer[s] = "gone"
        /\ fault[s] = "WebSocketDisconnect"
        /\ nSent[s] >= 1
        /\ WellFormed(msg[s])

====
